---- MODULE Spec2Model ----
(***************************************************************************)
(* Model of app/routes/home.tsx of split-the-g.                            *)
(*                                                                         *)
(*   Spec      the server side: the route's `action` (one process per      *)
(*             invocation, one step per await), the storage buckets and    *)
(*             the scores table, and the Home component's handling of the  *)
(*             value the action returns.                                   *)
(*   SpecHome  the client side: the Home component's state, its renders    *)
(*             and the live-detection polling loop (detectFrame).          *)
(***************************************************************************)
EXTENDS Integers, Sequences, FiniteSets, Bags, TLC

(* ------------------------------ bounds --------------------------------- *)

\* Number of invocations of `action` a behaviour may contain.
MaxInvocations == 2

\* Number of frames the detection loop may poll in a behaviour.
MaxFrames == 6

\* Number of detectFrame invocations that may be awaiting inference at once.
MaxInflight == 2

\* Number of times the user may press Start Analysis in a behaviour.
MaxActivations == 2

(* --------------------------- program constants ------------------------- *)

\* home.tsx:275  if (consecutiveDetections >= 4)
CaptureThreshold == 4

\* home.tsx:317  if (consecutiveDetections >= 1)
HoldStillThreshold == 1

\* home.tsx:88   status: 400
StatusNoG == 400

\* home.tsx:167  status: 500
StatusFailure == 500

\* react-router's redirect() answers 302 (home.tsx:154)
StatusRedirect == 302

Inv == 1 .. MaxInvocations

VARIABLES
    \* ---- one `action` invocation per element of Inv ----
    pc,            \* where the invocation is: idle, fetch, upSplit, upPint, location, insert, done
    sessionId,     \* const sessionId = crypto.randomUUID()            (0: not drawn yet)
    result,        \* const result = await response.json()
    splitImageUrl, \* const splitImageUrl = await uploadImage(...)
    pintImageUrl,  \* const pintImageUrl = await uploadImage(...)
    ret,           \* what the invocation returned
    log,           \* history: the external calls the invocation made, in order
    failed,        \* history: the point of the pipeline that threw ("none" if none)
    rowOf,         \* history: id of the row the invocation inserted (0 if none)
    \* ---- the managed backend ----
    storage,       \* objects in the split-images and pint-images buckets
    scores,        \* rows of the scores table, in insertion order
    \* ---- the router ----
    submitted,     \* submit() calls whose request has not reached `action` yet
    actionData,    \* useActionData(): the value the last settled action returned
    effectDue,     \* actionData changed and the [actionData] effect has not run
    page,          \* "home", or "score" after a redirect was followed
    \* ---- Home component state (useState) ----
    isCameraActive,
    isVideoReady,
    modelWorkerId,
    consecutiveDetections,
    feedbackMessage,
    isProcessing,
    isSubmitting,
    isUploadProcessing,
    showNoGModal,
    \* ---- Home: what the last committed render holds ----
    rendered,      \* the state values the committed render (refs, closures, interval) saw
    stream,        \* camera stream of the mounted video: none, pending, live, stopped
    awaiting,      \* bag of detectFrame invocations awaiting infer(), by closure value
    \* ---- history of the detection loop ----
    frames,        \* frames polled (detectFrame invocations that reached infer())
    posVotes,      \* frames whose predictions held both "glass" and "G"
    negVotes,      \* frames resolved with "glass" or "G" missing
    lastPredictions, \* history: classes predicted for the last frame resolved
    activations,   \* times Start Analysis was pressed
    loopSubmits    \* submit() calls made by detectFrame since Start Analysis was last pressed

serverVars == <<pc, sessionId, result, splitImageUrl, pintImageUrl, ret, log,
                failed, rowOf, storage, scores>>
routerVars == <<submitted, actionData, effectDue, page>>
homeVars   == <<isCameraActive, isVideoReady, modelWorkerId, consecutiveDetections,
                feedbackMessage, isProcessing, isSubmitting, isUploadProcessing,
                showNoGModal>>
loopVars   == <<rendered, stream, awaiting, frames, posVotes, negVotes,
                lastPredictions, activations, loopSubmits>>
vars == <<serverVars, routerVars, homeVars, loopVars>>

(* ------------------------- values of the action ------------------------ *)

NoUrl == [bucket |-> "", key |-> 0]

\* What an invocation has returned: nothing yet, a redirect Response, or a value.
NoReturn == [type |-> "none", location |-> 0, cookie |-> 0, success |-> FALSE,
             error |-> "", message |-> "", status |-> 0]

\* home.tsx:146-156  Set-Cookie split-g-session=<sessionId>; redirect(`/score/${score.id}`)
RedirectResult(id, sid) ==
    [type |-> "redirect", location |-> id, cookie |-> sid, success |-> TRUE,
     error |-> "", message |-> "", status |-> StatusRedirect]

\* home.tsx:84-89
NoGResult ==
    [type |-> "value", location |-> 0, cookie |-> 0, success |-> FALSE,
     error |-> "No G detected", message |-> "No G pattern detected",
     status |-> StatusNoG]

\* An exception: `isError` is `error instanceof Error`.
Err(msg) == [isError |-> TRUE, message |-> msg]

\* home.tsx:159-160
errorMessage(error) ==
    IF error.isError THEN error.message ELSE "Unknown error occurred"


\* Mutant of CatchResult: the catch block answers with the client-error status.
CatchResultStatus400(error) ==
    [type |-> "value", location |-> 0, cookie |-> 0, success |-> FALSE,
     error |-> errorMessage(error), message |-> "Failed to process image",
     status |-> StatusNoG]

\* home.tsx:157-169  the catch block: every exception becomes a returned value
CatchResult(error) ==
    [type |-> "value", location |-> 0, cookie |-> 0, success |-> FALSE,
     error |-> errorMessage(error), message |-> "Failed to process image",
     status |-> StatusFailure]

(* ----------------------- the inference response ------------------------ *)

\* Classes the workflow's "pint results" predictions may carry.
PintClassSets == SUBSET {"G", "glass"}

\* outputs[0] of the workflow response: "pint results", "split image"[0].value
\* and "pint image".value ("" models a missing or empty value).
Outputs == [pint_results : PintClassSets,
            split_image  : {"", "split.jpg"},
            pint_image   : {"", "pint.jpg"}]

\* The JSON bodies the inference API may answer with: no outputs[0], or one.
NoBody == [outputs |-> <<>>]
Bodies == {NoBody} \cup {[outputs |-> <<o>>] : o \in Outputs}

\* HTTP responses of the inference API: response.ok and the parsed body.
HttpResponses == {[ok |-> FALSE, body |-> NoBody]} \cup {[ok |-> TRUE, body |-> b] : b \in Bodies}

\* home.tsx:78-79  result.outputs?.[0]?.["pint results"]?.predictions?.predictions || []
pintPredictions(res) ==
    IF Len(res.outputs) = 0 THEN {} ELSE res.outputs[1].pint_results

\* Mutant of hasG: any prediction of the pint results counts.
hasGAnyPrediction(res) == pintPredictions(res) # {}

\* home.tsx:80  pintPredictions.some((pred) => pred.class === "G")
hasG(res) == "G" \in pintPredictions(res)

\* home.tsx:93  !result.outputs?.[0]
noOutputs(res) == Len(res.outputs) = 0

\* home.tsx:98-107  !splitImage || !pintImage
missingImage(res) ==
    \/ res.outputs[1].split_image = ""
    \/ res.outputs[1].pint_image = ""

(* -------------------------- the action's steps ------------------------- *)

Logged(i, call) == log' = [log EXCEPT ![i] = Append(@, call)]

\* Mutant of Throw: the failed step is left to run again.
ThrowAndRetry(i, point, error) ==
    /\ pc' = pc
    /\ ret' = ret
    /\ failed' = [failed EXCEPT ![i] = point]

\* home.tsx:157-169  control leaves the try block: the invocation ends with the
\* catch block's value.
Throw(i, point, error) ==
    /\ pc' = [pc EXCEPT ![i] = "done"]
    /\ ret' = [ret EXCEPT ![i] = CatchResult(error)]
    /\ failed' = [failed EXCEPT ![i] = point]

\* A return statement of the try block.
Return(i, value) ==
    /\ pc' = [pc EXCEPT ![i] = "done"]
    /\ ret' = [ret EXCEPT ![i] = value]
    /\ failed' = failed

Goto(i, next) ==
    /\ pc' = [pc EXCEPT ![i] = next]
    /\ ret' = ret
    /\ failed' = failed

\* home.tsx:31  crypto.randomUUID() never repeats a value: the n-th id drawn
\* is written n.
randomUUID == Cardinality({i \in Inv : sessionId[i] # 0}) + 1

\* home.tsx:27-50  the router calls action() for a submitted form (invocations
\* are numbered in the order in which they start)
ActionStart(i) ==
    /\ pc[i] = "idle"
    /\ \A j \in Inv : j < i => pc[j] # "idle"
    /\ submitted > 0
    /\ submitted' = submitted - 1
    /\ sessionId' = [sessionId EXCEPT ![i] = randomUUID]
    /\ Goto(i, "fetch")
    /\ UNCHANGED <<result, splitImageUrl, pintImageUrl, log, rowOf, storage, scores>>
    /\ UNCHANGED <<actionData, effectDue, page>>
    /\ UNCHANGED <<homeVars, loopVars>>

\* home.tsx:74-117  what the try block does with the parsed response, up to the
\* first upload
Interpret(i, res) ==
    IF ~hasG(res) THEN Return(i, NoGResult)
    ELSE IF noOutputs(res) THEN Throw(i, "outputs", Err("No outputs received from API"))
    ELSE IF missingImage(res)
         THEN Throw(i, "images", Err("Missing required image data from API response"))
    ELSE Goto(i, "upSplit")

\* home.tsx:53-117  await fetch(...), response.ok, await response.json()
Fetch(i) ==
    /\ pc[i] = "fetch"
    /\ Logged(i, "infer")
    /\ \/ /\ Throw(i, "fetch", Err("fetch failed"))
          /\ result' = result
       \/ \E r \in HttpResponses :
            IF ~r.ok
            THEN /\ Throw(i, "http", Err("API request failed"))
                 /\ result' = result
            ELSE /\ result' = [result EXCEPT ![i] = r.body]
                 /\ Interpret(i, r.body)
    /\ UNCHANGED <<sessionId, splitImageUrl, pintImageUrl, rowOf, storage, scores>>
    /\ UNCHANGED <<routerVars, homeVars, loopVars>>

\* ~/utils/imageStorage uploadImage(image, bucket): stores the object and
\* answers its URL
Stored(i, bucket) == [bucket |-> bucket, key |-> i]

\* home.tsx:120  const splitImageUrl = await uploadImage(splitImage, "split-images")
UploadSplit(i) ==
    /\ pc[i] = "upSplit"
    /\ Logged(i, "uploadSplit")
    /\ \/ /\ storage' = storage \cup {Stored(i, "split-images")}
          /\ splitImageUrl' = [splitImageUrl EXCEPT ![i] = Stored(i, "split-images")]
          /\ Goto(i, "upPint")
       \/ /\ Throw(i, "uploadSplit", Err("upload failed"))
          /\ UNCHANGED <<storage, splitImageUrl>>
    /\ UNCHANGED <<sessionId, result, pintImageUrl, rowOf, scores>>
    /\ UNCHANGED <<routerVars, homeVars, loopVars>>

\* home.tsx:121  const pintImageUrl = await uploadImage(pintImage, "pint-images")
UploadPint(i) ==
    /\ pc[i] = "upPint"
    /\ Logged(i, "uploadPint")
    /\ \/ /\ storage' = storage \cup {Stored(i, "pint-images")}
          /\ pintImageUrl' = [pintImageUrl EXCEPT ![i] = Stored(i, "pint-images")]
          /\ Goto(i, "location")
       \/ /\ Throw(i, "uploadPint", Err("upload failed"))
          /\ UNCHANGED <<storage, pintImageUrl>>
    /\ UNCHANGED <<sessionId, result, splitImageUrl, rowOf, scores>>
    /\ UNCHANGED <<routerVars, homeVars, loopVars>>

\* home.tsx:124  const locationData = await getLocationData(clientIP)
Location(i) ==
    /\ pc[i] = "location"
    /\ Logged(i, "location")
    /\ \/ Goto(i, "insert")
       \/ Throw(i, "location", Err("location lookup failed"))
    /\ UNCHANGED <<sessionId, result, splitImageUrl, pintImageUrl, rowOf, storage, scores>>
    /\ UNCHANGED <<routerVars, homeVars, loopVars>>

\* Mutant of NewRow: the row is stored without the invocation's session id.
NewRowFreshSession(i, id) ==
    [id |-> id, session_id |-> 0,
     split_image_url |-> splitImageUrl[i], pint_image_url |-> pintImageUrl[i]]

\* home.tsx:129-140  the inserted record (the database assigns the id)
NewRow(i, id) ==
    [id |-> id, session_id |-> sessionId[i],
     split_image_url |-> splitImageUrl[i], pint_image_url |-> pintImageUrl[i]]

\* Mutant of Redirected: the redirect points at the newest row of the table
\* as it was before the insert.
RedirectedToPrevious(i, score) ==
    Return(i, RedirectResult(score.id - 1, sessionId[i]))

\* home.tsx:146-156  the cookie header and the redirect to the inserted row
Redirected(i, score) ==
    Return(i, RedirectResult(score.id, sessionId[i]))

\* home.tsx:127-156  await supabase.from("scores").insert(...).select().single()
Insert(i) ==
    /\ pc[i] = "insert"
    /\ Logged(i, "insert")
    /\ \/ LET score == NewRow(i, Len(scores) + 1) IN
            /\ scores' = Append(scores, score)
            /\ rowOf' = [rowOf EXCEPT ![i] = score.id]
            /\ Redirected(i, score)
       \/ \E isErr \in BOOLEAN :
            /\ Throw(i, "insert", [isError |-> isErr, message |-> "insert failed"])
            /\ UNCHANGED <<scores, rowOf>>
    /\ UNCHANGED <<sessionId, result, splitImageUrl, pintImageUrl, storage>>
    /\ UNCHANGED <<routerVars, homeVars, loopVars>>


(* ------------------- the router and the Home component ----------------- *)

Started == Cardinality({i \in Inv : pc[i] # "idle"})

\* home.tsx:361-385  handleFileChange: no file chosen, a file the reader cannot
\* read (reader.result is null), or an image that is submitted
handleFileChange ==
    /\ page = "home"
    /\ submitted + Started < MaxInvocations
    /\ \E file \in {"none", "unreadable", "image"} :
         /\ isUploadProcessing' = (IF file = "none" THEN isUploadProcessing ELSE TRUE)
         /\ submitted' = (IF file = "image" THEN submitted + 1 ELSE submitted)
    /\ UNCHANGED <<isCameraActive, isVideoReady, modelWorkerId, consecutiveDetections,
                   feedbackMessage, isProcessing, isSubmitting, showNoGModal>>
    /\ UNCHANGED <<actionData, effectDue, page>>
    /\ UNCHANGED <<serverVars, loopVars>>

\* home.tsx:179  useActionData(): the router settles a finished invocation. A
\* Response redirect is followed (the page leaves Home); any other value
\* becomes actionData. The invocation's local variables are gone.
Settle(i) ==
    /\ pc[i] = "done"
    /\ pc' = [pc EXCEPT ![i] = "settled"]
    /\ result' = [result EXCEPT ![i] = NoBody]
    /\ splitImageUrl' = [splitImageUrl EXCEPT ![i] = NoUrl]
    /\ pintImageUrl' = [pintImageUrl EXCEPT ![i] = NoUrl]
    /\ IF ret[i].type = "redirect"
       THEN /\ page' = (IF page = "home" THEN "score" ELSE page)
            /\ UNCHANGED <<actionData, effectDue>>
       ELSE /\ actionData' = (IF page = "home" THEN ret[i] ELSE actionData)
            /\ effectDue' = (IF page = "home" THEN TRUE ELSE effectDue)
            /\ page' = page
    /\ UNCHANGED <<sessionId, ret, log, failed, rowOf, storage, scores, submitted>>
    /\ UNCHANGED <<homeVars, loopVars>>

\* home.tsx:353  actionData.error === "No G detected"
ShowsNoGModal(data) == data.error = "No G detected"

\* home.tsx:347-358  useEffect(..., [actionData])
ActionResponseEffect ==
    /\ page = "home"
    /\ effectDue
    /\ effectDue' = FALSE
    /\ IF actionData.type # "none"
       THEN /\ isUploadProcessing' = FALSE
            /\ isSubmitting' = FALSE
            /\ showNoGModal' = (IF ShowsNoGModal(actionData) THEN TRUE ELSE showNoGModal)
       ELSE UNCHANGED <<isUploadProcessing, isSubmitting, showNoGModal>>
    /\ UNCHANGED <<isCameraActive, isVideoReady, modelWorkerId, consecutiveDetections,
                   feedbackMessage, isProcessing>>
    /\ UNCHANGED <<submitted, actionData, page>>
    /\ UNCHANGED <<serverVars, loopVars>>

\* home.tsx:636  onClick={() => setShowNoGModal(false)}
DismissNoGModal ==
    /\ page = "home"
    /\ showNoGModal
    /\ showNoGModal' = FALSE
    /\ UNCHANGED <<isCameraActive, isVideoReady, modelWorkerId, consecutiveDetections,
                   feedbackMessage, isProcessing, isSubmitting, isUploadProcessing>>
    /\ UNCHANGED <<serverVars, routerVars, loopVars>>

(* ---------------------- the live-detection loop ------------------------ *)

\* The state values a render reads.
Current ==
    [isCameraActive |-> isCameraActive, isSubmitting |-> isSubmitting,
     isVideoReady |-> isVideoReady, modelWorkerId |-> modelWorkerId,
     consecutiveDetections |-> consecutiveDetections]

\* videoRef.current && canvasRef.current: the committed render mounted the
\* <video> and <canvas> (home.tsx:401, 487-503)
VideoMounted == rendered.isCameraActive /\ ~rendered.isSubmitting

\* home.tsx:252-259, 335-336  the committed detection effect holds an interval
IntervalRunning ==
    /\ rendered.modelWorkerId
    /\ rendered.isCameraActive
    /\ rendered.isVideoReady

\* home.tsx:184-210  the inference engine is created and startWorker() resolves
StartWorkerResolved ==
    /\ page = "home"
    /\ ~modelWorkerId
    /\ modelWorkerId' = TRUE
    /\ UNCHANGED <<isCameraActive, isVideoReady, consecutiveDetections,
                   feedbackMessage, isProcessing, isSubmitting, isUploadProcessing,
                   showNoGModal>>
    /\ UNCHANGED <<serverVars, routerVars, loopVars>>

\* home.tsx:510-511  the Start Analysis button (rendered while the camera is
\* off and no submission is shown)
StartAnalysis ==
    /\ page = "home"
    /\ ~rendered.isCameraActive
    /\ ~rendered.isSubmitting
    /\ activations < MaxActivations
    /\ isCameraActive' = TRUE
    /\ activations' = activations + 1
    /\ loopSubmits' = 0
    /\ UNCHANGED <<isVideoReady, modelWorkerId, consecutiveDetections,
                   feedbackMessage, isProcessing, isSubmitting, isUploadProcessing,
                   showNoGModal>>
    /\ UNCHANGED <<rendered, stream, awaiting, frames, posVotes, negVotes, lastPredictions>>
    /\ UNCHANGED <<serverVars, routerVars>>

\* React commits a render of the current state: refs and effect closures are
\* replaced, the camera effect (home.tsx:215-238) asks for a stream when the
\* camera was switched on and the <video> is mounted.
Render ==
    /\ page = "home"
    /\ rendered # Current
    /\ rendered' = Current
    /\ LET mounted == isCameraActive /\ ~isSubmitting IN
         stream' = IF ~mounted THEN (IF stream = "stopped" THEN "stopped" ELSE "none")
                   ELSE IF ~rendered.isCameraActive THEN "pending"
                   ELSE stream
    /\ UNCHANGED <<awaiting, frames, posVotes, negVotes, lastPredictions,
                   activations, loopSubmits>>
    /\ UNCHANGED <<serverVars, routerVars, homeVars>>

\* home.tsx:226-233  getUserMedia resolves and the stream is attached
GetUserMediaResolved ==
    /\ page = "home"
    /\ stream = "pending"
    /\ stream' = (IF VideoMounted THEN "live" ELSE "none")
    /\ UNCHANGED <<rendered, awaiting, frames, posVotes, negVotes, lastPredictions,
                   activations, loopSubmits>>
    /\ UNCHANGED <<serverVars, routerVars, homeVars>>

\* home.tsx:234-237  getUserMedia rejects
GetUserMediaRejected ==
    /\ page = "home"
    /\ stream = "pending"
    /\ stream' = "none"
    /\ isCameraActive' = FALSE
    /\ UNCHANGED <<isVideoReady, modelWorkerId, consecutiveDetections,
                   feedbackMessage, isProcessing, isSubmitting, isUploadProcessing,
                   showNoGModal>>
    /\ UNCHANGED <<rendered, awaiting, frames, posVotes, negVotes, lastPredictions,
                   activations, loopSubmits>>
    /\ UNCHANGED <<serverVars, routerVars>>

\* home.tsx:494  onLoadedMetadata={() => setIsVideoReady(true)}
LoadedMetadata ==
    /\ page = "home"
    /\ VideoMounted
    /\ stream = "live"
    /\ ~isVideoReady
    /\ isVideoReady' = TRUE
    /\ UNCHANGED <<isCameraActive, modelWorkerId, consecutiveDetections,
                   feedbackMessage, isProcessing, isSubmitting, isUploadProcessing,
                   showNoGModal>>
    /\ UNCHANGED <<serverVars, routerVars, loopVars>>

\* home.tsx:495-498  the <video>'s onError
VideoError ==
    /\ page = "home"
    /\ VideoMounted
    /\ stream = "live"
    /\ isCameraActive
    /\ isCameraActive' = FALSE
    /\ UNCHANGED <<isVideoReady, modelWorkerId, consecutiveDetections,
                   feedbackMessage, isProcessing, isSubmitting, isUploadProcessing,
                   showNoGModal>>
    /\ UNCHANGED <<serverVars, routerVars, loopVars>>

\* home.tsx:261-267, 335  the interval calls detectFrame, which returns at once
\* without a <video>, and otherwise awaits infer() holding the
\* consecutiveDetections of the render that created it
Tick ==
    /\ page = "home"
    /\ IntervalRunning
    /\ VideoMounted
    /\ frames < MaxFrames
    /\ BagCardinality(awaiting) < MaxInflight
    /\ awaiting' = awaiting (+) SetToBag({rendered.consecutiveDetections})
    /\ frames' = frames + 1
    /\ UNCHANGED <<rendered, stream, posVotes, negVotes, lastPredictions,
                   activations, loopSubmits>>
    /\ UNCHANGED <<serverVars, routerVars, homeVars>>

\* Classes the live model's predictions may carry.
FrameClassSets == SUBSET {"glass", "G"}

\* home.tsx:269  predictions.some((pred) => pred.class === "glass")
hasGlass(predictions) == "glass" \in predictions

\* home.tsx:270  predictions.some((pred) => pred.class === "G")
hasGInFrame(predictions) == "G" \in predictions

\* home.tsx:272  hasGlass && hasG
isPositive(predictions) == hasGlass(predictions) /\ hasGInFrame(predictions)

\* Mutant of Counted: a negative frame leaves the counter as it is.
CountedKeepOnNegative(prev, positive) == IF positive THEN prev + 1 ELSE prev

\* home.tsx:273, 323  setConsecutiveDetections((prev) => prev + 1) or (0)
Counted(prev, positive) == IF positive THEN prev + 1 ELSE 0

\* home.tsx:275  consecutiveDetections >= 4, read from the closure
Captures(closure) == closure >= CaptureThreshold

\* home.tsx:280  if (videoRef.current && canvasRef.current)
SubmitsCapture == VideoMounted

\* home.tsx:267-329  infer() resolves in a detectFrame invocation whose closure
\* holds consecutiveDetections = closure
InferResolved(closure, predictions) ==
    /\ page = "home"
    /\ BagIn(closure, awaiting)
    /\ awaiting' = awaiting (-) SetToBag({closure})
    /\ lastPredictions' = predictions
    /\ LET positive == isPositive(predictions) IN
       /\ consecutiveDetections' = Counted(consecutiveDetections, positive)
       /\ posVotes' = (IF positive THEN posVotes + 1 ELSE posVotes)
       /\ negVotes' = (IF positive THEN negVotes ELSE negVotes + 1)
       /\ IF positive /\ Captures(closure)
          THEN /\ feedbackMessage' = "Perfect! Processing your pour..."
               /\ isProcessing' = TRUE
               /\ isSubmitting' = TRUE
               /\ IF SubmitsCapture
                  THEN /\ stream' = "stopped"
                       /\ isCameraActive' = FALSE
                       /\ submitted' = submitted + 1
                       /\ loopSubmits' = loopSubmits + 1
                  ELSE UNCHANGED <<stream, isCameraActive, submitted, loopSubmits>>
          ELSE /\ feedbackMessage' =
                     (IF positive
                      THEN (IF closure >= HoldStillThreshold
                            THEN "Hold still..."
                            ELSE "Keep the glass centered...")
                      ELSE (IF ~hasGlass(predictions)
                            THEN "Show your pint glass"
                            ELSE "Make sure the G pattern is visible"))
               /\ UNCHANGED <<isProcessing, isSubmitting, stream, isCameraActive,
                              submitted, loopSubmits>>
    /\ UNCHANGED <<isVideoReady, modelWorkerId, isUploadProcessing, showNoGModal>>
    /\ UNCHANGED <<rendered, frames, activations>>
    /\ UNCHANGED <<actionData, effectDue, page>>
    /\ UNCHANGED serverVars

\* home.tsx:330-332  infer() rejects: the catch block only logs
InferRejected(closure) ==
    /\ page = "home"
    /\ BagIn(closure, awaiting)
    /\ awaiting' = awaiting (-) SetToBag({closure})
    /\ UNCHANGED <<rendered, stream, frames, posVotes, negVotes, lastPredictions,
                   activations, loopSubmits>>
    /\ UNCHANGED <<serverVars, routerVars, homeVars>>

\* The values `action` returns to the page for a submitted capture: the No G
\* value, a catch-block value, or a redirect.
SettledValues ==
    {NoGResult, CatchResult(Err("API request failed")), RedirectResult(1, 1)}

\* home.tsx:27-170, 179  the action invoked by a submit() settles
ActionSettled ==
    /\ page = "home"
    /\ submitted > 0
    /\ submitted' = submitted - 1
    /\ \E value \in SettledValues :
         IF value.type = "redirect"
         THEN /\ page' = "score"
              /\ UNCHANGED <<actionData, effectDue>>
         ELSE /\ actionData' = value
              /\ effectDue' = TRUE
              /\ page' = page
    /\ UNCHANGED <<serverVars, homeVars, loopVars>>

Closures == 0 .. MaxFrames

NextHome ==
    \/ StartWorkerResolved
    \/ StartAnalysis
    \/ Render
    \/ GetUserMediaResolved
    \/ GetUserMediaRejected
    \/ LoadedMetadata
    \/ VideoError
    \/ Tick
    \/ \E c \in Closures, predictions \in FrameClassSets :
          InferResolved(c, predictions)
    \/ \E c \in Closures : InferRejected(c)
    \/ ActionSettled
    \/ ActionResponseEffect
    \/ DismissNoGModal

(* --------------------------- specification ----------------------------- *)

Init ==
    /\ pc = [i \in Inv |-> "idle"]
    /\ sessionId = [i \in Inv |-> 0]
    /\ result = [i \in Inv |-> NoBody]
    /\ splitImageUrl = [i \in Inv |-> NoUrl]
    /\ pintImageUrl = [i \in Inv |-> NoUrl]
    /\ ret = [i \in Inv |-> NoReturn]
    /\ log = [i \in Inv |-> <<>>]
    /\ failed = [i \in Inv |-> "none"]
    /\ rowOf = [i \in Inv |-> 0]
    /\ storage = {}
    /\ scores = <<>>
    /\ submitted = 0
    /\ actionData = NoReturn
    /\ effectDue = FALSE
    /\ page = "home"
    /\ isCameraActive = FALSE
    /\ isVideoReady = FALSE
    /\ modelWorkerId = FALSE
    /\ consecutiveDetections = 0
    /\ feedbackMessage = "Show your pint glass"
    /\ isProcessing = FALSE
    /\ isSubmitting = FALSE
    /\ isUploadProcessing = FALSE
    /\ showNoGModal = FALSE
    /\ rendered = Current
    /\ stream = "none"
    /\ awaiting = EmptyBag
    /\ frames = 0
    /\ posVotes = 0
    /\ negVotes = 0
    /\ lastPredictions = {}
    /\ activations = 0
    /\ loopSubmits = 0

Next ==
    \/ handleFileChange
    \/ \E i \in Inv : ActionStart(i)
    \/ \E i \in Inv : Fetch(i)
    \/ \E i \in Inv : UploadSplit(i)
    \/ \E i \in Inv : UploadPint(i)
    \/ \E i \in Inv : Location(i)
    \/ \E i \in Inv : Insert(i)
    \/ \E i \in Inv : Settle(i)
    \/ ActionResponseEffect
    \/ DismissNoGModal

Spec == Init /\ [][Next]_vars

SpecHome == Init /\ [][NextHome]_vars


(* ------------------------------ claims --------------------------------- *)

Ended(i) == pc[i] \in {"done", "settled"}

\* The external calls of invocation i other than the location lookup.
PipelineCalls(i) == SelectSeq(log[i], LAMBDA c : c # "location")

Times(seq, c) == Cardinality({k \in DOMAIN seq : seq[k] = c})

\* The objects invocation i put into the buckets.
UploadedBy(i) == {o \in storage : o.key = i}

\* The rows that carry invocation i's session id.
RowsOf(i) == {k \in DOMAIN scores : scores[k].session_id = sessionId[i]}

\* The call of the pipeline during which a failure point is reached.
CallOf(point) ==
    IF point \in {"fetch", "http", "outputs", "images"} THEN "infer" ELSE point

\* The inference API answered invocation i with an OK response.
InferenceOk(i) ==
    /\ Len(log[i]) > 0
    /\ failed[i] \notin {"fetch", "http"}

\* C1: an invocation that returned a redirect made, in this order, one
\* inference call, the split upload, the pint upload and one insert; it
\* stored exactly two objects and exactly one row, and the redirect points at
\* the id of that row.
C1_RedirectAfterPipeline ==
    \A i \in Inv :
        ret[i].type = "redirect" =>
            /\ PipelineCalls(i) = <<"infer", "uploadSplit", "uploadPint", "insert">>
            /\ UploadedBy(i) = {Stored(i, "split-images"), Stored(i, "pint-images")}
            /\ Cardinality(RowsOf(i)) = 1
            /\ rowOf[i] \in RowsOf(i)
            /\ scores[rowOf[i]].id = rowOf[i]
            /\ ret[i].location = rowOf[i]

\* Two invocations both redirected, each to its own row.
C1_Witness ==
    /\ \A i \in {1, 2} : ret[i].type = "redirect"
    /\ ret[1].location # ret[2].location

\* C2: no call of the pipeline is made twice by one invocation, and an
\* invocation in which a step failed has ended with an error value, the
\* failed call being the last call it made.
C2_NoRetry ==
    \A i \in Inv :
        /\ \A c \in {"infer", "uploadSplit", "uploadPint", "location", "insert"} :
               Times(log[i], c) <= 1
        /\ failed[i] # "none" =>
               /\ Ended(i)
               /\ ret[i].type = "value"
               /\ ~ret[i].success
               /\ log[i][Len(log[i])] = CallOf(failed[i])

\* The pint upload failed after the split upload, and the invocation ended
\* without looking up the location or inserting.
C2_Witness ==
    \E i \in Inv :
        /\ failed[i] = "uploadPint"
        /\ log[i] = <<"infer", "uploadSplit", "uploadPint">>
        /\ pc[i] = "settled"

\* A frame was resolved by this step.
FrameResolved == posVotes' + negVotes' = posVotes + negVotes + 1

\* C3 (as amended): the loop keeps a counter of consecutive detections, not a
\* majority vote. A resolved frame is positive exactly when its predictions
\* hold both "glass" and "G"; a positive frame adds one to the counter, a
\* negative frame resets it to 0, nothing else changes it; and a capture is
\* submitted only by a positive frame whose detectFrame invocation read a
\* counter of at least 4 from its closure.
C3_ConsecutiveCounter ==
    [][ /\ FrameResolved =>
            (posVotes' > posVotes <=> {"glass", "G"} \subseteq lastPredictions')
        /\ posVotes' > posVotes => consecutiveDetections' = consecutiveDetections + 1
        /\ negVotes' > negVotes => consecutiveDetections' = 0
        /\ consecutiveDetections' # consecutiveDetections => FrameResolved
        /\ loopSubmits' > loopSubmits =>
              /\ posVotes' > posVotes
              /\ \E c \in BagToSet(awaiting) :
                    /\ c >= CaptureThreshold
                    /\ awaiting' = awaiting (-) SetToBag({c})
      ]_vars

\* A negative frame has discarded earlier positive votes, and a capture was
\* submitted later on.
C3_Witness ==
    /\ negVotes > 0
    /\ posVotes > CaptureThreshold
    /\ loopSubmits = 1

\* C3 (as claimed): a majority vote, in which a negative frame discards no
\* positive vote already counted and a capture is submitted when the positive
\* votes are the majority of the frames counted.
C3_MajorityVote ==
    [][ /\ negVotes' > negVotes => consecutiveDetections' >= consecutiveDetections
        /\ loopSubmits' > loopSubmits => posVotes' > negVotes'
      ]_vars

\* The [actionData] effect runs in this step.
EffectRuns == effectDue /\ ~effectDue'

\* C4: an invocation whose inference call succeeded without a "G" among the
\* pint predictions returns exactly the No G value, having uploaded nothing,
\* inserted nothing and set no cookie; the Home effect opens the No G modal
\* for that value and leaves showNoGModal alone for every other value.
C4_NoGDetected ==
    /\ [](\A i \in Inv :
            ( /\ pc[i] = "done"
              /\ InferenceOk(i)
              /\ \/ Len(result[i].outputs) = 0
                 \/ "G" \notin result[i].outputs[1].pint_results )
            => /\ ret[i] = [type |-> "value", location |-> 0, cookie |-> 0,
                            success |-> FALSE, error |-> "No G detected",
                            message |-> "No G pattern detected", status |-> 400]
               /\ log[i] = <<"infer">>
               /\ UploadedBy(i) = {}
               /\ rowOf[i] = 0)
    /\ [][ EffectRuns =>
              IF actionData.error = "No G detected" /\ actionData.status = 400
              THEN showNoGModal'
              ELSE showNoGModal' = showNoGModal ]_vars

\* The No G value of an invocation reached Home and the modal is open.
C4_Witness ==
    /\ showNoGModal
    /\ ~effectDue
    /\ \E i \in Inv : pc[i] = "settled" /\ ret[i] = NoGResult /\ actionData = ret[i]

\* C5: every failure inside the pipeline ends the invocation with the value
\* {success: false, message: "Failed to process image", status: 500}, which is
\* neither a redirect nor carries a cookie.
C5_FailureValue ==
    \A i \in Inv :
        failed[i] # "none" =>
            /\ Ended(i)
            /\ ret[i].type = "value"
            /\ ret[i].success = FALSE
            /\ ret[i].message = "Failed to process image"
            /\ ret[i].status = 500
            /\ ret[i].cookie = 0
            /\ ret[i].location = 0

\* One invocation failed on a non-OK response, the other on the insert.
C5_Witness ==
    /\ failed[1] = "http"
    /\ failed[2] = "insert"
    /\ \A i \in {1, 2} : pc[i] = "done"

\* C6: a cookie is set only by an invocation whose insert succeeded, and its
\* value is the session_id of the row that invocation inserted, the row the
\* redirect points at.
C6_CookieMatchesRow ==
    \A i \in Inv :
        ret[i].cookie # 0 =>
            /\ failed[i] = "none"
            /\ rowOf[i] \in DOMAIN scores
            /\ ret[i].type = "redirect"
            /\ ret[i].location = rowOf[i]
            /\ scores[rowOf[i]].session_id = ret[i].cookie

\* Two invocations set cookies, with different session ids.
C6_Witness ==
    /\ \A i \in {1, 2} : ret[i].cookie # 0
    /\ ret[1].cookie # ret[2].cookie
    /\ Len(scores) = 2

\* C7 (as claimed): an OK response without outputs[0] ends the invocation with
\* the status-500 value whose error is "No outputs received from API".
C7_NoOutputsError ==
    \A i \in Inv :
        ( /\ pc[i] = "done"
          /\ InferenceOk(i)
          /\ Len(result[i].outputs) = 0 )
        => /\ ret[i].error = "No outputs received from API"
           /\ ret[i].status = 500

\* C8 (as claimed): between two presses of Start Analysis the detection loop
\* calls submit at most once.
C8_OneSubmitPerActivation == loopSubmits <= 1

\* C9 (as claimed): once an invocation has ended, every object it uploaded is
\* referenced by the row it inserted.
C9_NoOrphanedImages ==
    \A i \in Inv :
        Ended(i) =>
            \A o \in UploadedBy(i) :
                /\ rowOf[i] \in DOMAIN scores
                /\ \/ scores[rowOf[i]].split_image_url = o
                   \/ scores[rowOf[i]].pint_image_url = o

====
